---- MODULE Spec2Model ----
(***************************************************************************)
(* Model of tf2jax/_src/jax_utils.py: the stride/dilation normaliser       *)
(* get_conv_sequence, the layout builder to_conv_dimension_numbers, the    *)
(* four XLA dimension-number proto converters and the precision-config     *)
(* converter.  Every function is pure: a behaviour draws one call (the     *)
(* function and its arguments) in Init and the actions carry it out.       *)
(* A proto converter is called on the bytes of a message that was built    *)
(* field by field and serialized first.                                    *)
(***************************************************************************)
EXTENDS Integers, Sequences, FiniteSets, TLC

VARIABLES pc, fn, arg, wire, result

vars == <<pc, fn, arg, wire, result>>

(***************************************************************************)
(* Bounds of the explored inputs.                                          *)
(***************************************************************************)
MaxNdim == 2
MaxElem == 2
MaxSpatialDims == 12
MaxScalar == 1
MaxDim == 1
MaxRep == 2

\* Sequences over S of length 0..n.
SeqsUpTo(S, n) == UNION {[1..k -> S] : k \in 0..n}

\* Python values: an int, or a sequence of ints.
PyInt(v) == [kind |-> "int", v |-> v, s |-> <<>>]
PySeq(s) == [kind |-> "seq", v |-> 0, s |-> s]

\* Outcomes of a call.
NoResult == [kind |-> "none", val |-> <<>>]
Returned(x) == [kind |-> "ok", val |-> x]
ValueError == [kind |-> "ValueError", val |-> <<>>]

\* Python's  s * n  on a sequence.
RECURSIVE Repeat(_, _)
Repeat(s, n) == IF n <= 0 THEN <<>> ELSE s \o Repeat(s, n - 1)

\* Python's  tuple(range(a, b)).
PyRange(a, b) == IF b <= a THEN <<>> ELSE [i \in 1..(b - a) |-> a + i - 1]

(***************************************************************************)
(* get_conv_sequence                                                       *)
(***************************************************************************)
get_conv_sequence_short(value, ndim, channel_index) ==
  IF value.kind = "int" THEN Returned(Repeat(<<value.v>>, ndim))
  ELSE IF Len(value.s) = 1 THEN Returned(Repeat(value.s, ndim))
  ELSE IF Len(value.s) = ndim THEN Returned(value.s)
  ELSE IF Len(value.s) = ndim + 2 THEN
    Returned(IF channel_index = 1
             THEN SubSeq(value.s, 2, Len(value.s))
             ELSE SubSeq(value.s, 2, Len(value.s) - 1))
  ELSE ValueError

get_conv_sequence_norepeat(value, ndim, channel_index) ==
  IF value.kind = "int" THEN Returned(Repeat(<<value.v>>, ndim))
  ELSE IF Len(value.s) = 1 THEN Returned(value.s)
  ELSE IF Len(value.s) = ndim THEN Returned(value.s)
  ELSE IF Len(value.s) = ndim + 2 THEN
    Returned(IF channel_index = 1
             THEN SubSeq(value.s, 3, Len(value.s))
             ELSE SubSeq(value.s, 2, Len(value.s) - 1))
  ELSE ValueError

get_conv_sequence_swapped(value, ndim, channel_index) ==
  IF value.kind = "int" THEN Returned(Repeat(<<value.v>>, ndim))
  ELSE IF Len(value.s) = 1 THEN Returned(Repeat(value.s, ndim))
  ELSE IF Len(value.s) = ndim THEN Returned(value.s)
  ELSE IF Len(value.s) = ndim + 2 THEN
    Returned(IF channel_index = 1
             THEN SubSeq(value.s, 2, Len(value.s) - 1)
             ELSE SubSeq(value.s, 3, Len(value.s)))
  ELSE ValueError

get_conv_sequence_nofullrank(value, ndim, channel_index) ==
  IF value.kind = "int" THEN Returned(Repeat(<<value.v>>, ndim))
  ELSE IF Len(value.s) = 1 THEN Returned(Repeat(value.s, ndim))
  ELSE IF Len(value.s) = ndim THEN Returned(value.s)
  ELSE ValueError

get_conv_sequence(value, ndim, channel_index) ==
  IF value.kind = "int" THEN Returned(Repeat(<<value.v>>, ndim))
  ELSE IF Len(value.s) = 1 THEN Returned(Repeat(value.s, ndim))
  ELSE IF Len(value.s) = ndim THEN Returned(value.s)
  ELSE IF Len(value.s) = ndim + 2 THEN
    Returned(IF channel_index = 1
             THEN SubSeq(value.s, 3, Len(value.s))
             ELSE SubSeq(value.s, 2, Len(value.s) - 1))
  ELSE ValueError

(***************************************************************************)
(* to_conv_dimension_numbers                                               *)
(***************************************************************************)
ConvDimensionNumbers(lhs, rhs, out) ==
  [lhs_spec |-> lhs, rhs_spec |-> rhs, out_spec |-> out]

to_conv_dimension_numbers_dupaxis(num_spatial_dims, channels_last, transpose) ==
  LET num_dims == num_spatial_dims + 2
      image_dn == IF channels_last
                  THEN <<0, num_dims - 1>> \o PyRange(2, num_dims)
                  ELSE <<0, 1>> \o PyRange(2, num_dims)
      kernel_dn == IF transpose
                   THEN <<num_dims - 2, num_dims - 1>> \o PyRange(0, num_dims - 2)
                   ELSE <<num_dims - 1, num_dims - 2>> \o PyRange(0, num_dims - 2)
  IN Returned(ConvDimensionNumbers(image_dn, kernel_dn, image_dn))

to_conv_dimension_numbers_notranspose(num_spatial_dims, channels_last, transpose) ==
  LET num_dims == num_spatial_dims + 2
      image_dn == IF channels_last
                  THEN <<0, num_dims - 1>> \o PyRange(1, num_dims - 1)
                  ELSE <<0, 1>> \o PyRange(2, num_dims)
      kernel_dn == <<num_dims - 1, num_dims - 2>> \o PyRange(0, num_dims - 2)
  IN Returned(ConvDimensionNumbers(image_dn, kernel_dn, image_dn))

to_conv_dimension_numbers_outkernel(num_spatial_dims, channels_last, transpose) ==
  LET num_dims == num_spatial_dims + 2
      image_dn == IF channels_last
                  THEN <<0, num_dims - 1>> \o PyRange(1, num_dims - 1)
                  ELSE <<0, 1>> \o PyRange(2, num_dims)
      kernel_dn == IF transpose
                   THEN <<num_dims - 2, num_dims - 1>> \o PyRange(0, num_dims - 2)
                   ELSE <<num_dims - 1, num_dims - 2>> \o PyRange(0, num_dims - 2)
  IN Returned(ConvDimensionNumbers(image_dn, kernel_dn, kernel_dn))

to_conv_dimension_numbers(num_spatial_dims, channels_last, transpose) ==
  LET num_dims == num_spatial_dims + 2
      image_dn == IF channels_last
                  THEN <<0, num_dims - 1>> \o PyRange(1, num_dims - 1)
                  ELSE <<0, 1>> \o PyRange(2, num_dims)
      kernel_dn == IF transpose
                   THEN <<num_dims - 2, num_dims - 1>> \o PyRange(0, num_dims - 2)
                   ELSE <<num_dims - 1, num_dims - 2>> \o PyRange(0, num_dims - 2)
  IN Returned(ConvDimensionNumbers(image_dn, kernel_dn, image_dn))

(***************************************************************************)
(* Protocol-buffer messages.  A message is a record of its fields; a       *)
(* schema lists the fields in field-number order with their cardinality.   *)
(* The wire form is a sequence of entries, one per field that is set:      *)
(* proto3 writes no entry for a scalar equal to its default 0 nor for an   *)
(* empty repeated field, and packs a repeated numeric field in one entry.  *)
(***************************************************************************)
Field(name, repeated) == [name |-> name, repeated |-> repeated]

ConvolutionDimensionNumbersSchema ==
  << Field("kernel_input_feature_dimension", FALSE),
     Field("kernel_output_feature_dimension", FALSE),
     Field("kernel_spatial_dimensions", TRUE),
     Field("input_batch_dimension", FALSE),
     Field("input_feature_dimension", FALSE),
     Field("output_batch_dimension", FALSE),
     Field("output_feature_dimension", FALSE),
     Field("input_spatial_dimensions", TRUE),
     Field("output_spatial_dimensions", TRUE) >>

DotDimensionNumbersSchema ==
  << Field("lhs_contracting_dimensions", TRUE),
     Field("rhs_contracting_dimensions", TRUE),
     Field("lhs_batch_dimensions", TRUE),
     Field("rhs_batch_dimensions", TRUE) >>

GatherDimensionNumbersSchema ==
  << Field("offset_dims", TRUE),
     Field("collapsed_slice_dims", TRUE),
     Field("start_index_map", TRUE),
     Field("index_vector_dim", FALSE) >>

ScatterDimensionNumbersSchema ==
  << Field("update_window_dims", TRUE),
     Field("inserted_window_dims", TRUE),
     Field("scatter_dims_to_operand_dims", TRUE),
     Field("index_vector_dim", FALSE) >>

PrecisionConfigSchema ==
  << Field("operand_precision", TRUE) >>

FieldNames(schema) == {schema[i].name : i \in 1..Len(schema)}

IsRepeated(schema, name) ==
  \E i \in 1..Len(schema) : schema[i].name = name /\ schema[i].repeated

\* A freshly constructed message: every field at its default.
DefaultMessage(schema) ==
  [f \in FieldNames(schema) |-> IF IsRepeated(schema, f) THEN <<>> ELSE 0]

\* The entry written for one field, or nothing when the field is default.
FieldEntry(field, m) ==
  IF field.repeated
  THEN IF m[field.name] = <<>> THEN <<>>
       ELSE << [field |-> field.name, data |-> m[field.name]] >>
  ELSE IF m[field.name] = 0 THEN <<>>
       ELSE << [field |-> field.name, data |-> <<m[field.name]>>] >>

RECURSIVE SerializeFrom(_, _, _)
SerializeFrom(schema, m, i) ==
  IF i > Len(schema) THEN <<>>
  ELSE FieldEntry(schema[i], m) \o SerializeFrom(schema, m, i + 1)

SerializeToString(schema, m) == SerializeFrom(schema, m, 1)

\* Merging one wire entry into a message: a repeated field is extended by
\* the entry's elements, a scalar field takes the entry's last value.
MergeEntry(schema, m, e) ==
  IF IsRepeated(schema, e.field)
  THEN [m EXCEPT ![e.field] = @ \o e.data]
  ELSE [m EXCEPT ![e.field] = e.data[Len(e.data)]]

RECURSIVE MergeFrom(_, _, _, _)
MergeFrom(schema, m, w, i) ==
  IF i > Len(w) THEN m
  ELSE MergeFrom(schema, MergeEntry(schema, m, w[i]), w, i + 1)

FromString(schema, message) ==
  MergeFrom(schema, DefaultMessage(schema), message, 1)

(***************************************************************************)
(* The proto converters                                                    *)
(***************************************************************************)
convolution_dimension_numbers_from_proto_swapped(message) ==
  LET proto == FromString(ConvolutionDimensionNumbersSchema, message)
      lhs_spec == <<proto.input_batch_dimension, proto.input_feature_dimension>>
                    \o proto.input_spatial_dimensions
      rhs_spec == <<proto.kernel_input_feature_dimension,
                    proto.kernel_output_feature_dimension>>
                    \o proto.kernel_spatial_dimensions
      out_spec == <<proto.output_batch_dimension, proto.output_feature_dimension>>
                    \o proto.output_spatial_dimensions
  IN Returned(ConvDimensionNumbers(lhs_spec, rhs_spec, out_spec))

convolution_dimension_numbers_from_proto(message) ==
  LET proto == FromString(ConvolutionDimensionNumbersSchema, message)
      lhs_spec == <<proto.input_batch_dimension, proto.input_feature_dimension>>
                    \o proto.input_spatial_dimensions
      rhs_spec == <<proto.kernel_output_feature_dimension,
                    proto.kernel_input_feature_dimension>>
                    \o proto.kernel_spatial_dimensions
      out_spec == <<proto.output_batch_dimension, proto.output_feature_dimension>>
                    \o proto.output_spatial_dimensions
  IN Returned(ConvDimensionNumbers(lhs_spec, rhs_spec, out_spec))

dot_dimension_numbers_from_proto(message) ==
  LET proto == FromString(DotDimensionNumbersSchema, message)
      contracting_dimensions == <<proto.lhs_contracting_dimensions,
                                  proto.rhs_contracting_dimensions>>
      batch_dimensions == <<proto.lhs_batch_dimensions,
                            proto.rhs_batch_dimensions>>
  IN Returned(<<contracting_dimensions, batch_dimensions>>)

GatherDimensionNumbers(offset_dims, collapsed_slice_dims, start_index_map) ==
  [offset_dims |-> offset_dims,
   collapsed_slice_dims |-> collapsed_slice_dims,
   start_index_map |-> start_index_map]

gather_dimension_numbers_from_proto_dup(message) ==
  LET proto == FromString(GatherDimensionNumbersSchema, message)
  IN Returned(GatherDimensionNumbers(proto.offset_dims,
                                     proto.collapsed_slice_dims,
                                     proto.collapsed_slice_dims))

gather_dimension_numbers_from_proto(message) ==
  LET proto == FromString(GatherDimensionNumbersSchema, message)
  IN Returned(GatherDimensionNumbers(proto.offset_dims,
                                     proto.collapsed_slice_dims,
                                     proto.start_index_map))

ScatterDimensionNumbers(update_window_dims, inserted_window_dims, scatter_dims_to_operand_dims) ==
  [update_window_dims |-> update_window_dims,
   inserted_window_dims |-> inserted_window_dims,
   scatter_dims_to_operand_dims |-> scatter_dims_to_operand_dims]

scatter_dimension_numbers_from_proto(message) ==
  LET proto == FromString(ScatterDimensionNumbersSchema, message)
  IN Returned(ScatterDimensionNumbers(proto.update_window_dims,
                                      proto.inserted_window_dims,
                                      proto.scatter_dims_to_operand_dims))

\* jax.lax.Precision(v): the enum member whose value is v.
PrecisionMembers == <<"DEFAULT", "HIGH", "HIGHEST">>

Precision(v) == PrecisionMembers[v + 1]

RECURSIVE PrecisionList(_)
PrecisionList(vs) ==
  IF vs = <<>> THEN <<>>
  ELSE <<Precision(Head(vs))>> \o PrecisionList(Tail(vs))

precision_config_from_proto_nounwrap(message) ==
  LET proto == FromString(PrecisionConfigSchema, message)
      precision_config == PrecisionList(proto.operand_precision)
  IN IF precision_config = <<>> THEN [kind |-> "None", val |-> <<>>]
     ELSE [kind |-> "tuple", val |-> precision_config]

precision_config_from_proto(message) ==
  LET proto == FromString(PrecisionConfigSchema, message)
      precision_config == PrecisionList(proto.operand_precision)
  IN IF precision_config = <<>> THEN [kind |-> "None", val |-> <<>>]
     ELSE IF Len(precision_config) = 1
          THEN [kind |-> "Precision", val |-> precision_config[1]]
          ELSE [kind |-> "tuple", val |-> precision_config]

(***************************************************************************)
(* Calls drawn by Init.                                                    *)
(***************************************************************************)
ConvValues ==
  {PyInt(v) : v \in 0..MaxElem}
    \cup {PySeq(s) : s \in SeqsUpTo(0..MaxElem, MaxNdim + 3)}

GetConvSequenceArgs ==
  [value : ConvValues, ndim : 0..MaxNdim, channel_index : -1..(MaxNdim + 1)]

ToConvDimensionNumbersArgs ==
  [num_spatial_dims : 0..MaxSpatialDims, channels_last : BOOLEAN,
   transpose : BOOLEAN]

Scalars == 0..MaxScalar

Repeateds == SeqsUpTo(0..MaxDim, MaxRep)

\* Every message of each schema with field values in the explored sets.
ConvolutionDimensionNumbersMessages ==
  [kernel_input_feature_dimension : Scalars,
   kernel_output_feature_dimension : Scalars,
   kernel_spatial_dimensions : Repeateds,
   input_batch_dimension : Scalars,
   input_feature_dimension : Scalars,
   output_batch_dimension : Scalars,
   output_feature_dimension : Scalars,
   input_spatial_dimensions : Repeateds,
   output_spatial_dimensions : Repeateds]

DotDimensionNumbersMessages ==
  [lhs_contracting_dimensions : Repeateds,
   rhs_contracting_dimensions : Repeateds,
   lhs_batch_dimensions : Repeateds,
   rhs_batch_dimensions : Repeateds]

GatherDimensionNumbersMessages ==
  [offset_dims : Repeateds,
   collapsed_slice_dims : Repeateds,
   start_index_map : Repeateds,
   index_vector_dim : Scalars]

ScatterDimensionNumbersMessages ==
  [update_window_dims : Repeateds,
   inserted_window_dims : Repeateds,
   scatter_dims_to_operand_dims : Repeateds,
   index_vector_dim : Scalars]

PrecisionMessages ==
  [operand_precision : SeqsUpTo(0..(Len(PrecisionMembers) - 1), MaxRep + 1)]

SchemaOf(f) ==
  CASE f = "convolution_dimension_numbers_from_proto" ->
         ConvolutionDimensionNumbersSchema
    [] f = "dot_dimension_numbers_from_proto" -> DotDimensionNumbersSchema
    [] f = "gather_dimension_numbers_from_proto" -> GatherDimensionNumbersSchema
    [] f = "scatter_dimension_numbers_from_proto" -> ScatterDimensionNumbersSchema
    [] f = "precision_config_from_proto" -> PrecisionConfigSchema

MessagesOf(f) ==
  CASE f = "convolution_dimension_numbers_from_proto" ->
         ConvolutionDimensionNumbersMessages
    [] f = "dot_dimension_numbers_from_proto" -> DotDimensionNumbersMessages
    [] f = "gather_dimension_numbers_from_proto" -> GatherDimensionNumbersMessages
    [] f = "scatter_dimension_numbers_from_proto" -> ScatterDimensionNumbersMessages
    [] f = "precision_config_from_proto" -> PrecisionMessages

Init ==
  /\ wire = <<>>
  /\ result = NoResult
  /\ \/ /\ fn = "gather_dimension_numbers_from_proto"
        /\ arg \in GatherDimensionNumbersMessages
        /\ pc = "serialize"
     \/ /\ fn = "scatter_dimension_numbers_from_proto"
        /\ arg \in ScatterDimensionNumbersMessages
        /\ pc = "serialize"
     \/ /\ fn = "dot_dimension_numbers_from_proto"
        /\ arg \in DotDimensionNumbersMessages
        /\ pc = "serialize"
     \/ /\ fn = "convolution_dimension_numbers_from_proto"
        /\ arg \in ConvolutionDimensionNumbersMessages
        /\ pc = "serialize"
     \/ /\ fn = "precision_config_from_proto"
        /\ arg \in PrecisionMessages
        /\ pc = "serialize"
     \/ /\ fn = "get_conv_sequence"
        /\ arg \in GetConvSequenceArgs
        /\ pc = "call"
     \/ /\ fn = "to_conv_dimension_numbers"
        /\ arg \in ToConvDimensionNumbersArgs
        /\ pc = "call"

CallGetConvSequence ==
  /\ pc = "call"
  /\ fn = "get_conv_sequence"
  /\ result' = get_conv_sequence(arg.value, arg.ndim, arg.channel_index)
  /\ pc' = "done"
  /\ UNCHANGED <<fn, arg, wire>>

CallToConvDimensionNumbers ==
  /\ pc = "call"
  /\ fn = "to_conv_dimension_numbers"
  /\ result' = to_conv_dimension_numbers(arg.num_spatial_dims,
                                         arg.channels_last, arg.transpose)
  /\ pc' = "done"
  /\ UNCHANGED <<fn, arg, wire>>

\* The caller serializes the message it built.
Serialize ==
  /\ pc = "serialize"
  /\ wire' = SerializeToString(SchemaOf(fn), arg)
  /\ pc' = "call"
  /\ UNCHANGED <<fn, arg, result>>

CallConvolutionDimensionNumbersFromProto ==
  /\ pc = "call"
  /\ fn = "convolution_dimension_numbers_from_proto"
  /\ result' = convolution_dimension_numbers_from_proto(wire)
  /\ pc' = "done"
  /\ UNCHANGED <<fn, arg, wire>>

CallDotDimensionNumbersFromProto ==
  /\ pc = "call"
  /\ fn = "dot_dimension_numbers_from_proto"
  /\ result' = dot_dimension_numbers_from_proto(wire)
  /\ pc' = "done"
  /\ UNCHANGED <<fn, arg, wire>>

CallGatherDimensionNumbersFromProto ==
  /\ pc = "call"
  /\ fn = "gather_dimension_numbers_from_proto"
  /\ result' = gather_dimension_numbers_from_proto(wire)
  /\ pc' = "done"
  /\ UNCHANGED <<fn, arg, wire>>

CallScatterDimensionNumbersFromProto ==
  /\ pc = "call"
  /\ fn = "scatter_dimension_numbers_from_proto"
  /\ result' = scatter_dimension_numbers_from_proto(wire)
  /\ pc' = "done"
  /\ UNCHANGED <<fn, arg, wire>>

CallPrecisionConfigFromProto ==
  /\ pc = "call"
  /\ fn = "precision_config_from_proto"
  /\ result' = precision_config_from_proto(wire)
  /\ pc' = "done"
  /\ UNCHANGED <<fn, arg, wire>>

Next ==
  \/ CallGetConvSequence
  \/ CallToConvDimensionNumbers
  \/ Serialize
  \/ CallConvolutionDimensionNumbersFromProto
  \/ CallDotDimensionNumbersFromProto
  \/ CallGatherDimensionNumbersFromProto
  \/ CallScatterDimensionNumbersFromProto
  \/ CallPrecisionConfigFromProto

Spec == Init /\ [][Next]_vars

(***************************************************************************)
(* Properties                                                              *)
(***************************************************************************)
Done(f) == pc = "done" /\ fn = f

\* The converter a call name stands for, applied to serialized bytes.
ConvertOf(f, message) ==
  CASE f = "convolution_dimension_numbers_from_proto" ->
         convolution_dimension_numbers_from_proto(message)
    [] f = "dot_dimension_numbers_from_proto" ->
         dot_dimension_numbers_from_proto(message)
    [] f = "gather_dimension_numbers_from_proto" ->
         gather_dimension_numbers_from_proto(message)
    [] f = "scatter_dimension_numbers_from_proto" ->
         scatter_dimension_numbers_from_proto(message)

DimensionNumberConverters ==
  {"convolution_dimension_numbers_from_proto",
   "dot_dimension_numbers_from_proto",
   "gather_dimension_numbers_from_proto",
   "scatter_dimension_numbers_from_proto"}

\* C1: whenever get_conv_sequence returns, the returned sequence has exactly
\* ndim entries.
C1_ReturnsNdimEntries ==
  (Done("get_conv_sequence") /\ result.kind = "ok")
    => Len(result.val) = arg.ndim

C1_Witness ==
  /\ Done("get_conv_sequence")
  /\ result.kind = "ok"
  /\ arg.value.kind = "seq"
  /\ arg.ndim = 2
  /\ Len(arg.value.s) = arg.ndim + 2
  /\ arg.channel_index = 1

\* C2: for ndim >= 1 the scalar v, the sequence <<v>> and the sequence of ndim
\* copies of v give the same result, and a sequence of length exactly ndim is
\* returned unchanged.
C2_ScalarAndSequenceFormsAgree ==
  (Done("get_conv_sequence") /\ arg.ndim >= 1) =>
    /\ arg.value.kind = "int" =>
         LET v == arg.value.v
             one == get_conv_sequence(PySeq(<<v>>), arg.ndim, arg.channel_index)
             copies == get_conv_sequence(PySeq([i \in 1..arg.ndim |-> v]),
                                         arg.ndim, arg.channel_index)
         IN /\ result.kind = "ok"
            /\ one = result
            /\ copies = result
    /\ (arg.value.kind = "seq" /\ Len(arg.value.s) = arg.ndim) =>
         /\ result.kind = "ok"
         /\ Len(result.val) = Len(arg.value.s)
         /\ \A i \in 1..arg.ndim : result.val[i] = arg.value.s[i]

C2_Witness ==
  /\ Done("get_conv_sequence")
  /\ arg.ndim = 2
  /\ arg.value.kind = "int"
  /\ arg.value.v = 2
  /\ result.val = <<2, 2>>

\* C3: a full-rank sequence (length ndim+2, ndim >= 1) loses exactly its two
\* non-spatial entries and keeps the spatial ones in order: positions 0 and 1
\* with channel_index = 1, position 0 and the last position with the channel
\* axis last (channel_index = ndim+1 or -1).
C3_FullRankStripsBatchAndChannel ==
  (/\ Done("get_conv_sequence")
   /\ arg.ndim >= 1
   /\ arg.value.kind = "seq"
   /\ Len(arg.value.s) = arg.ndim + 2) =>
    /\ result.kind = "ok"
    /\ Len(result.val) = arg.ndim
    /\ arg.channel_index = 1 =>
         \A i \in 1..arg.ndim : result.val[i] = arg.value.s[i + 2]
    /\ arg.channel_index \in {arg.ndim + 1, -1} =>
         \A i \in 1..arg.ndim : result.val[i] = arg.value.s[i + 1]

C3_Witness ==
  /\ Done("get_conv_sequence")
  /\ arg.ndim = 2
  /\ arg.value.kind = "seq"
  /\ arg.value.s = <<0, 1, 2, 1>>
  /\ arg.channel_index = 1
  /\ result.val = <<2, 1>>

\* C4: get_conv_sequence raises ValueError if and only if value is a sequence
\* whose length is none of 1, ndim, ndim+2.
C4_ValueErrorIffUnexpectedLength ==
  Done("get_conv_sequence") =>
    (result.kind = "ValueError"
       <=> (/\ arg.value.kind = "seq"
            /\ Len(arg.value.s) \notin {1, arg.ndim, arg.ndim + 2}))

C4_Witness ==
  /\ Done("get_conv_sequence")
  /\ result.kind = "ValueError"
  /\ arg.value.kind = "seq"
  /\ Len(arg.value.s) = arg.ndim + 1
  /\ arg.ndim >= 1

IsAxisPermutation(spec, n) ==
  /\ Len(spec) = n
  /\ \A a \in 0..(n - 1) : Cardinality({i \in 1..n : spec[i] = a}) = 1

\* C5: each of lhs_spec, rhs_spec, out_spec has length num_spatial_dims+2 and
\* holds every axis index 0..num_spatial_dims+1 exactly once.
C5_SpecsArePermutations ==
  Done("to_conv_dimension_numbers") =>
    /\ result.kind = "ok"
    /\ IsAxisPermutation(result.val.lhs_spec, arg.num_spatial_dims + 2)
    /\ IsAxisPermutation(result.val.rhs_spec, arg.num_spatial_dims + 2)
    /\ IsAxisPermutation(result.val.out_spec, arg.num_spatial_dims + 2)

C5_Witness ==
  /\ Done("to_conv_dimension_numbers")
  /\ arg.num_spatial_dims = 3
  /\ arg.channels_last
  /\ arg.transpose
  /\ result.val.lhs_spec = <<0, 4, 1, 2, 3>>

\* C6: the results for transpose = true and transpose = false differ only in
\* that the first two entries of rhs_spec are exchanged.
C6_TransposeSwapsFirstTwoKernelAxes ==
  Done("to_conv_dimension_numbers") =>
    LET other == to_conv_dimension_numbers(arg.num_spatial_dims,
                                           arg.channels_last, ~arg.transpose)
        mine == result.val.rhs_spec
        theirs == other.val.rhs_spec
    IN /\ other.kind = "ok" /\ result.kind = "ok"
       /\ result.val.lhs_spec = other.val.lhs_spec
       /\ result.val.out_spec = other.val.out_spec
       /\ Len(mine) = Len(theirs)
       /\ mine[1] = theirs[2]
       /\ mine[2] = theirs[1]
       /\ mine[1] # mine[2]
       /\ \A i \in 3..Len(mine) : mine[i] = theirs[i]

C6_Witness ==
  /\ Done("to_conv_dimension_numbers")
  /\ arg.num_spatial_dims = 2
  /\ arg.transpose
  /\ result.val.rhs_spec = <<2, 3, 0, 1>>

\* C7: a message built with known field values, serialized and converted,
\* yields exactly those values in the same order, for each of the four
\* dimension-number converters.
C7_RoundTripKeepsFieldValues ==
  /\ Done("convolution_dimension_numbers_from_proto") =>
       /\ result.kind = "ok"
       /\ result.val.lhs_spec =
            <<arg.input_batch_dimension, arg.input_feature_dimension>>
              \o arg.input_spatial_dimensions
       /\ result.val.rhs_spec =
            <<arg.kernel_output_feature_dimension,
              arg.kernel_input_feature_dimension>>
              \o arg.kernel_spatial_dimensions
       /\ result.val.out_spec =
            <<arg.output_batch_dimension, arg.output_feature_dimension>>
              \o arg.output_spatial_dimensions
  /\ Done("dot_dimension_numbers_from_proto") =>
       /\ result.kind = "ok"
       /\ result.val =
            << <<arg.lhs_contracting_dimensions, arg.rhs_contracting_dimensions>>,
               <<arg.lhs_batch_dimensions, arg.rhs_batch_dimensions>> >>
  /\ Done("gather_dimension_numbers_from_proto") =>
       /\ result.kind = "ok"
       /\ result.val.offset_dims = arg.offset_dims
       /\ result.val.collapsed_slice_dims = arg.collapsed_slice_dims
       /\ result.val.start_index_map = arg.start_index_map
  /\ Done("scatter_dimension_numbers_from_proto") =>
       /\ result.kind = "ok"
       /\ result.val.update_window_dims = arg.update_window_dims
       /\ result.val.inserted_window_dims = arg.inserted_window_dims
       /\ result.val.scatter_dims_to_operand_dims =
            arg.scatter_dims_to_operand_dims

C7_Witness ==
  /\ Done("convolution_dimension_numbers_from_proto")
  /\ arg.kernel_output_feature_dimension = 1
  /\ arg.kernel_input_feature_dimension = 0
  /\ arg.kernel_spatial_dimensions = <<1, 0>>
  /\ result.val.rhs_spec = <<1, 0, 1, 0>>
  /\ Len(wire) < Len(ConvolutionDimensionNumbersSchema)

\* C8: precision_config_from_proto returns None for zero operand_precision
\* entries, the single Precision itself for one entry, and for two or more a
\* tuple of the same length holding the entries in input order.
C8_PrecisionConfigByEntryCount ==
  Done("precision_config_from_proto") =>
    LET entries == arg.operand_precision IN
    /\ Len(entries) = 0 => result = [kind |-> "None", val |-> <<>>]
    /\ Len(entries) = 1 =>
         result = [kind |-> "Precision", val |-> Precision(entries[1])]
    /\ Len(entries) >= 2 =>
         /\ result.kind = "tuple"
         /\ Len(result.val) = Len(entries)
         /\ \A i \in 1..Len(entries) : result.val[i] = Precision(entries[i])

C8_Witness ==
  /\ Done("precision_config_from_proto")
  /\ arg.operand_precision = <<2, 0, 1>>
  /\ result.val = <<"HIGHEST", "DEFAULT", "HIGH">>

\* C9 as stated: any two messages of the same schema that differ in at least
\* one field (index_vector_dim included) are converted to different outputs.
C9_AnyFieldDifferenceChangesOutput ==
  (pc = "done" /\ fn \in DimensionNumberConverters) =>
    \A other \in MessagesOf(fn) :
      other # arg =>
        ConvertOf(fn, SerializeToString(SchemaOf(fn), other)) # result

\* C9 amended: every field a converter reads can be recovered from its output
\* (all nine convolution fields, all four dot fields, the three repeated
\* fields of gather and scatter), while index_vector_dim is not copied: the
\* output is the same whatever its value.
C9_ReadFieldsRecoverable ==
  /\ Done("convolution_dimension_numbers_from_proto") =>
       LET r == result.val IN
       arg = [input_batch_dimension |-> r.lhs_spec[1],
              input_feature_dimension |-> r.lhs_spec[2],
              input_spatial_dimensions |-> SubSeq(r.lhs_spec, 3, Len(r.lhs_spec)),
              kernel_output_feature_dimension |-> r.rhs_spec[1],
              kernel_input_feature_dimension |-> r.rhs_spec[2],
              kernel_spatial_dimensions |-> SubSeq(r.rhs_spec, 3, Len(r.rhs_spec)),
              output_batch_dimension |-> r.out_spec[1],
              output_feature_dimension |-> r.out_spec[2],
              output_spatial_dimensions |-> SubSeq(r.out_spec, 3, Len(r.out_spec))]
  /\ Done("dot_dimension_numbers_from_proto") =>
       arg = [lhs_contracting_dimensions |-> result.val[1][1],
              rhs_contracting_dimensions |-> result.val[1][2],
              lhs_batch_dimensions |-> result.val[2][1],
              rhs_batch_dimensions |-> result.val[2][2]]
  /\ Done("gather_dimension_numbers_from_proto") =>
       /\ arg = [offset_dims |-> result.val.offset_dims,
                 collapsed_slice_dims |-> result.val.collapsed_slice_dims,
                 start_index_map |-> result.val.start_index_map,
                 index_vector_dim |-> arg.index_vector_dim]
       /\ \A d \in Scalars :
            gather_dimension_numbers_from_proto(
              SerializeToString(GatherDimensionNumbersSchema,
                                [arg EXCEPT !.index_vector_dim = d])) = result
  /\ Done("scatter_dimension_numbers_from_proto") =>
       /\ arg = [update_window_dims |-> result.val.update_window_dims,
                 inserted_window_dims |-> result.val.inserted_window_dims,
                 scatter_dims_to_operand_dims |->
                   result.val.scatter_dims_to_operand_dims,
                 index_vector_dim |-> arg.index_vector_dim]
       /\ \A d \in Scalars :
            scatter_dimension_numbers_from_proto(
              SerializeToString(ScatterDimensionNumbersSchema,
                                [arg EXCEPT !.index_vector_dim = d])) = result

C9_Witness ==
  /\ Done("gather_dimension_numbers_from_proto")
  /\ arg.index_vector_dim = 1
  /\ arg.offset_dims = <<0, 1>>
  /\ arg.start_index_map = <<1>>
  /\ result.val.start_index_map = <<1>>

\* C10: out_spec equals lhs_spec; with N = num_spatial_dims+2 the image spec
\* is (0, N-1, 1, ..., N-2) with channels_last and (0, 1, ..., N-1) otherwise;
\* the kernel spec is (N-1, N-2, 0, ..., N-3) without transpose and
\* (N-2, N-1, 0, ..., N-3) with it; the call never fails.
C10_FixedLayoutConvention ==
  Done("to_conv_dimension_numbers") =>
    LET N == arg.num_spatial_dims + 2
        r == result.val
    IN /\ result.kind = "ok"
       /\ r.out_spec = r.lhs_spec
       /\ Len(r.lhs_spec) = N
       /\ Len(r.rhs_spec) = N
       /\ r.lhs_spec[1] = 0
       /\ r.lhs_spec[2] = (IF arg.channels_last THEN N - 1 ELSE 1)
       /\ \A i \in 3..N :
            r.lhs_spec[i] = (IF arg.channels_last THEN i - 2 ELSE i - 1)
       /\ r.rhs_spec[1] = (IF arg.transpose THEN N - 2 ELSE N - 1)
       /\ r.rhs_spec[2] = (IF arg.transpose THEN N - 1 ELSE N - 2)
       /\ \A i \in 3..N : r.rhs_spec[i] = i - 3

C10_Witness ==
  /\ Done("to_conv_dimension_numbers")
  /\ arg.num_spatial_dims = 2
  /\ arg.channels_last
  /\ ~arg.transpose
  /\ result.val.out_spec = <<0, 3, 1, 2>>
  /\ result.val.rhs_spec = <<3, 2, 0, 1>>

====
